---- MODULE Spec2Model ----
(***************************************************************************)
(* Model of the home_web gateway: the service-discovery Proxy              *)
(* (src/src/service_discovery.rs) with its two background tasks and the    *)
(* read API used by the HTTP handlers (src/src/main.rs).                   *)
(*                                                                         *)
(* Time is counted in seconds.  `mono` is the monotonic clock that drives  *)
(* tokio's sleep(); SystemTime::now() reads mono + offset, and `offset`    *)
(* changes when the wall clock is stepped.                                 *)
(***************************************************************************)
EXTENDS Integers, Sequences, FiniteSets, TLC

\* ------------------------------------------------------------ constants
DISCOVERY_PERIOD == 600
CLEANUP_PERIOD == DISCOVERY_PERIOD
CLEANUP_INITIAL_DELAY == 30
CLEANUP_TIMEOUT == 3600
ZERO == 0

\* ------------------------------------------------------------ bounds
MaxTime == 4300         \* the monotonic clock stops advancing here
MaxBatch == 2           \* longest discovery response
MaxFairTime == 1300      \* horizon of the specification with fairness
MaxClockSteps == 1      \* how many times the wall clock is stepped
ClockJump == 3600       \* size of one wall clock step, either direction

\* ------------------------------------------------------------ data
Ids == {"ll", "k"}
NoType == "None"                         \* Option<String>::None
Addr1 == "192.0.2.5:5683"
Addr2 == "192.0.2.6:5683"

\* The (id, type?, address) triples a discovery response is made of.  Each
\* id is announced in two ways that differ in type and in address.
Announce ==
    { <<"ll", "rgbw", Addr1>>, <<"ll", NoType, Addr2>>,
      <<"k", "shcnt", Addr2>>, <<"k", "lamp", Addr1>> }

\* Ok(Vec<(String, Option<String>, SocketAddr)>) values of service_discovery:
\* every sequence of at most MaxBatch triples of Announce, the same id any
\* number of times.  The response's length is drawn when the response
\* arrives and each entry when the for loop reaches it, which gives the same
\* runs as drawing the whole sequence at once.
ResponseLengths == 0..MaxBatch

Absent == [none |-> "absent"]            \* no entry under a key / Option::None
NotRun == [none |-> "not_run"]           \* a handler variable holding nothing
Never == [none |-> "never"]              \* a history variable holding nothing
NoId == "-"
NoMethod == "-"
NoPage == "-"

\* struct ProxyEntry
ProxyEntry(ts, t, a) ==
    [update_timestamp |-> ts, service_type |-> t, address |-> a]

VARIABLES
    services,      \* Proxy.services: id -> ProxyEntry or Absent
    lock,          \* holder of the Mutex: "free", "discovery", "cleanup", "handler"
    poisoned,      \* the Mutex is poisoned: a task panicked while holding it
    mono,          \* monotonic clock
    offset,        \* wall clock minus monotonic clock
    steps,         \* wall clock steps so far
    dpc,           \* discovery_thread: "query", "for", "insert", "sleep", "panicked"
    batch,         \* discovery_thread: number of entries of the response that
                   \*                   the for loop has not reached yet
    dWake,         \* discovery_thread: deadline of its sleep
    cpc,           \* cleanup_thread: "sleep", "retain", "panicked"
    cWake,         \* cleanup_thread: deadline of its sleep
    hpc,           \* handler: "idle", "service_lock", "service_got",
                   \*          "rgbw_extract", "rgbw_set", "rgbw_get",
                   \*          "shcnt_extract", "shcnt_set", "shcnt_get",
                   \*          "list_lock", "list_got", "done"
    hid,           \* handler: the {id} of the request path
    found,         \* handler: value returned by Proxy::service
    listed,        \* handler: value returned by Proxy::all
    hmethod,       \* handler: method of the request, once the handler reads it
    hform,         \* handler: the form the Form extractor has returned
    call,          \* handler: the CoAP call the handler has issued
    page,          \* handler: the kind of page the handler has returned
    rows,          \* handler: the sorted rows list_services gives the template
    last_seen,     \* history: update_timestamp of the latest upsert of each id
    last_upsert,   \* history: (type, address) of the latest upsert of each id
                   \*          since its last eviction
    iterated       \* history: the entries of the latest response that the for
                   \*          loop has gone through, in order

vars == << services, lock, poisoned, mono, offset, steps, dpc, batch, dWake,
           cpc, cWake, hpc, hid, found, listed, hmethod, hform, call, page, rows,
           last_seen, last_upsert, iterated >>

clockVars == << mono, offset, steps >>
discVars == << dpc, batch, dWake >>
cleanVars == << cpc, cWake >>
flowVars == << hmethod, hform, call, page, rows >>
handlerVars == << hpc, hid, found, listed, flowVars >>
historyVars == << last_seen, last_upsert, iterated >>

\* SystemTime::now()
now == mono + offset

\* ------------------------------------------------------------ pure parts

\* (variant: an occupied entry keeps its value, as entry().or_insert() does)
insert_if_vacant(map, key, value) ==
    IF map[key] = Absent THEN [map EXCEPT ![key] = value] ELSE map

\* (variant: an occupied entry is updated field by field and keeps its address)
insert_merging(map, key, value) ==
    [map EXCEPT ![key] =
        IF map[key] = Absent THEN value
        ELSE [value EXCEPT !.address = map[key].address]]

\* HashMap::insert: the value under key is replaced wholesale
insert(map, key, value) == [map EXCEPT ![key] = value]

\* SystemTime::elapsed: Ok(now - ts), or Err carrying ts - now when the clock
\* reads earlier than ts
elapsed(ts, t) ==
    IF t >= ts THEN [ok |-> TRUE, d |-> t - ts]
    ELSE [ok |-> FALSE, d |-> ts - t]

\* (variant: an Err yields the duration it carries, as
\*  unwrap_or_else(|e| e.duration()) does)
unwrap_or_err_duration(res, default) == res.d

\* Result::unwrap_or
unwrap_or(res, default) == IF res.ok THEN res.d ELSE default

\* (variant: <= for <)
keep_entry_inclusive(v, t) ==
    unwrap_or(elapsed(v.update_timestamp, t), ZERO) <= CLEANUP_TIMEOUT

\* (variant: the elapsed time is taken in minutes, the horizon in seconds)
keep_entry_wrong_unit(v, t) ==
    unwrap_or(elapsed(v.update_timestamp, t), ZERO) \div 60 < CLEANUP_TIMEOUT

\* (variant: the sweep period is used as the horizon)
keep_entry_wrong_horizon(v, t) ==
    unwrap_or(elapsed(v.update_timestamp, t), ZERO) < CLEANUP_PERIOD

\* the closure given to HashMap::retain
keep_entry(v, t) ==
    unwrap_or(elapsed(v.update_timestamp, t), ZERO) < CLEANUP_TIMEOUT

\* HashMap::retain
retain(map, t) ==
    [k \in DOMAIN map |->
        IF map[k] # Absent /\ keep_entry(map[k], t) THEN map[k] ELSE Absent]

\* Proxy::service: get(name).map(|e| (e.service_type.clone(), e.address))
service(map, name) ==
    IF map[name] = Absent THEN Absent
    ELSE [service_type |-> map[name].service_type, address |-> map[name].address]

\* the orders in which HashMap::iter may visit the keys of a set
Orders(S) ==
    { s \in [1..Cardinality(S) -> S] : \A i, j \in 1..Cardinality(S) : i # j => s[i] # s[j] }

\* (variant: entries without a type are skipped, as filter_map would)
all_typed_only(map) ==
    LET present == { k \in DOMAIN map : map[k] # Absent /\ map[k].service_type # NoType }
    IN  { [i \in 1..Cardinality(present) |->
              << o[i], map[o[i]].service_type, map[o[i]].address >>] : o \in Orders(present) }

\* Proxy::all: one (id, type, address) per entry, in the map's iteration order
all(map) ==
    LET present == { k \in DOMAIN map : map[k] # Absent }
    IN  { [i \in 1..Cardinality(present) |->
              << o[i], map[o[i]].service_type, map[o[i]].address >>] : o \in Orders(present) }

\* ------------------------------------------------------------ forms
\* a field that the urlencoded data does not carry; Option::None
Missing == [none |-> "missing"]

\* a panic unwinding the handler
Panic == [none |-> "panic"]

\* Result::Err of a parse
ParseErr == [none |-> "err"]

U8_MAX == 255

\* char::to_digit(16) for the characters of the rgb inputs below; the other
\* characters ("g", "#", "+") are not digits
HexVal ==
    ("0" :> 0) @@ ("a" :> 10) @@ ("A" :> 10) @@ ("f" :> 15) @@ ("F" :> 15)

\* the rgb strings a request may carry, one character per element
RgbInputs ==
    { << "f", "f", "0", "0", "a", "0" >>,
      << "#", "F", "F", "0", "0", "A", "0" >>,
      << "#", "#", "0", "a", "0", "a", "0", "a" >>,
      << "f", "f", "0", "0", "a", "0", "f" >>,
      << "f", "f", "0", "0" >>,
      << "g", "g", "0", "0", "0", "0" >>,
      << "+", "f", "0", "0", "0", "0" >>,
      << >> }

\* the numbers a request may carry in w or pos
NumInputs == {0 - 1, 0, U8_MAX, U8_MAX + 1}

RgbFields == {Missing} \cup {[text |-> r] : r \in RgbInputs}
NumFields == {Missing} \cup {[text |-> n] : n \in NumInputs}

\* urlencoded data for Form<Rgbw> and for Form<Shcnt>
RgbwData == [rgb : RgbFields, w : NumFields]
ShcntData == [pos : NumFields]
NoRgbwData == [rgb |-> Missing, w |-> Missing]
NoShcntData == [pos |-> Missing]

\* a request: its method, its query string and its body; one of the two
\* carries no fields
Requests(Data, NoData) ==
    { r \in [method : {"GET", "POST"}, query : Data, body : Data] :
          r.query = NoData \/ r.body = NoData }

\* str::trim_start_matches('#')
RECURSIVE trim_start_matches(_)
trim_start_matches(str) ==
    IF str # << >> /\ Head(str) = "#" THEN trim_start_matches(Tail(str)) ELSE str

\* the value of a string of digits in radix 16
RECURSIVE radix_value(_)
radix_value(digits) ==
    IF digits = << >> THEN 0
    ELSE 16 * radix_value(SubSeq(digits, 1, Len(digits) - 1))
            + HexVal[digits[Len(digits)]]

\* u8::from_str_radix(src, 16): one leading "+" is taken as a sign, every
\* other character has to be a digit and the value has to fit
from_str_radix(src) ==
    LET digits == IF src # << >> /\ Head(src) = "+" THEN Tail(src) ELSE src
    IN  IF digits = << >> \/ \E i \in 1..Len(digits) : digits[i] \notin DOMAIN HexVal
           THEN ParseErr
        ELSE IF radix_value(digits) > U8_MAX THEN ParseErr
        ELSE [val |-> radix_value(digits)]

\* Rgbw::channel: the slice panics when the string is too short, expect
\* panics when the two characters are not a number
channel(rgb, idx) ==
    LET hex_str == trim_start_matches(rgb)
        offset_start == 2 * idx
        offset_end == 2 * idx + 2
    IN  IF offset_end > Len(hex_str) THEN Panic
        ELSE LET channel_value == SubSeq(hex_str, offset_start + 1, offset_end)
             IN  IF from_str_radix(channel_value) = ParseErr THEN Panic
                 ELSE from_str_radix(channel_value)

\* deserialization of a u8 field
parse_u8(field) ==
    IF field = Missing THEN ParseErr
    ELSE IF field.text < 0 \/ field.text > U8_MAX THEN ParseErr
    ELSE [val |-> field.text]

\* Form::from_request: the fields are read from the query string when the
\* method is GET, from the body otherwise
form_data(request) ==
    IF request.method = "GET" THEN request.query ELSE request.body

\* request.extract::<Form<Rgbw>, _>(): rgb is any string, w is a u8
extract_rgbw(request) ==
    LET data == form_data(request)
    IN  IF data.rgb = Missing \/ parse_u8(data.w) = ParseErr THEN ParseErr
        ELSE [rgb |-> data.rgb.text, w |-> parse_u8(data.w).val]

\* request.extract::<Form<Shcnt>, _>(): pos is a u8
extract_shcnt(request) ==
    LET data == form_data(request)
    IN  IF parse_u8(data.pos) = ParseErr THEN ParseErr
        ELSE [pos |-> parse_u8(data.pos).val]

\* ------------------------------------------------------------ CoAP replies
\* ciborium values of the replies below
Integer(n) == [int |-> n]
Text(t) == [text |-> t]

\* what coap.get may return: Err(io::Error), Ok(None), Ok(Some(content)) with
\* content that is not CBOR, CBOR that is not a map, or a CBOR map given as
\* its Vec of (key, value)
Reply(kind, map) == [kind |-> kind, map |-> map]

RgbwReplies ==
    { Reply("IoErr", << >>), Reply("None", << >>), Reply("NotCbor", << >>),
      Reply("NotMap", << >>),
      Reply("Map", << <<"r", Integer(U8_MAX)>>, <<"g", Integer(0)>>, <<"b", Integer(10)>>, <<"w", Integer(0)>> >>),
      Reply("Map", << <<"r", Integer(1)>>, <<"r", Integer(2)>>, <<"g", Integer(0)>>, <<"b", Integer(0)>>, <<"w", Integer(0)>> >>),
      Reply("Map", << <<"r", Integer(0)>>, <<"b", Integer(0)>>, <<"w", Integer(0)>> >>),
      Reply("Map", << <<"r", Integer(0)>>, <<"g", Integer(0)>>, <<"b", Integer(0)>> >>),
      Reply("Map", << <<"r", Text("on")>>, <<"g", Integer(0)>>, <<"b", Integer(0)>>, <<"w", Integer(0)>> >>),
      Reply("Map", << <<"r", Integer(U8_MAX + 1)>>, <<"g", Integer(0)>>, <<"b", Integer(0)>>, <<"w", Integer(0)>> >>) }

ShcntReplies ==
    { Reply("IoErr", << >>), Reply("None", << >>), Reply("NotCbor", << >>),
      Reply("NotMap", << >>),
      Reply("Map", << <<"r", Integer(40)>> >>),
      Reply("Map", << <<"val", Integer(40)>> >>) }

\* what coap.set may return
SetResults == {"Ok", "IoErr"}

\* extract_cbor_map_from_coap_response: the error kind, or the map
extract_cbor_map_from_coap_response(response) ==
    CASE response.kind = "IoErr" -> [err |-> "InvalidResponse"]
      [] response.kind = "None" -> [err |-> "MissingContentType"]
      [] response.kind = "NotCbor" -> [err |-> "UnexpectedContentType"]
      [] response.kind = "NotMap" -> [err |-> "UnexpectedCborElement"]
      [] OTHER -> [ok |-> response.map]

\* cbor_map_get: the value of the first entry with the key
cbor_map_get(map, key) ==
    IF \E i \in 1..Len(map) : map[i][1] = key
       THEN map[CHOOSE i \in 1..Len(map) :
                   /\ map[i][1] = key
                   /\ \A j \in 1..(i - 1) : map[j][1] # key][2]
       ELSE Missing

\* value.as_integer().unwrap().try_into().expect(..): a u8, or a panic
as_u8(value) ==
    IF "int" \notin DOMAIN value THEN Panic
    ELSE IF value.int < 0 \/ value.int > U8_MAX THEN Panic
    ELSE [val |-> value.int]

\* the page of service_rgbw for the reply to its coap.get
rgbw_page(response) ==
    LET data == extract_cbor_map_from_coap_response(response)
        first_missing(keys) ==
            \E i \in 1..Len(keys) :
                /\ cbor_map_get(data.ok, keys[i]) = Missing
                /\ \A j \in 1..(i - 1) :
                       /\ cbor_map_get(data.ok, keys[j]) # Missing
                       /\ as_u8(cbor_map_get(data.ok, keys[j])) # Panic
        first_panic(keys) ==
            \E i \in 1..Len(keys) :
                /\ cbor_map_get(data.ok, keys[i]) # Missing
                /\ as_u8(cbor_map_get(data.ok, keys[i])) = Panic
                /\ \A j \in 1..(i - 1) :
                       /\ cbor_map_get(data.ok, keys[j]) # Missing
                       /\ as_u8(cbor_map_get(data.ok, keys[j])) # Panic
    IN  IF "err" \in DOMAIN data THEN data.err
        ELSE IF first_missing(<< "r", "g", "b" >>) THEN "MissingValue"
        ELSE IF first_panic(<< "r", "g", "b" >>) THEN "Aborted"
        ELSE IF cbor_map_get(data.ok, "w") = Missing THEN "MissingValue"
        ELSE "Rendered"

\* the page of service_shcnt for the reply to its coap.get
shcnt_page(response) ==
    LET data == extract_cbor_map_from_coap_response(response)
    IN  IF "err" \in DOMAIN data THEN data.err
        ELSE IF cbor_map_get(data.ok, "r") = Missing THEN "MissingValue"
        ELSE "Rendered"

\* ------------------------------------------------------------ list page
\* SERVICE_NAMES: the registered names of the ids used here
SERVICE_NAMES ==
    ("ap" :> "Ventilation system") @@ ("dr1" :> "Dining room left shades")
        @@ ("k" :> "Kitchen shades") @@ ("ll" :> "Living room lights")

\* get_service_name(&s.0).unwrap_or(&s.0)
label(id) == IF id \in DOMAIN SERVICE_NAMES THEN SERVICE_NAMES[id] ELSE id

\* the strings that list_services compares, in the order of str::cmp (by bytes)
StrOrder ==
    << "Dining room left shades", "Kitchen shades", "Living room lights",
       "Ventilation system", "lamp", "rgbw", "shcnt", "x1" >>

str_rank(str) == CHOOSE i \in 1..Len(StrOrder) : StrOrder[i] = str

\* Option<String>::cmp: None is less than every Some
option_rank(t) == IF t = NoType THEN 0 ELSE str_rank(t)

\* (variant: the rows are compared by the type alone)
key_le_type_only(a, b) ==
    option_rank(a[3]) <= option_rank(b[3])

\* the key (k.2, k.1) of row a is not greater than that of row b; a row is
\* (id, label, type, address)
key_le(a, b) ==
    \/ option_rank(a[3]) < option_rank(b[3])
    \/ option_rank(a[3]) = option_rank(b[3]) /\ str_rank(a[2]) <= str_rank(b[2])

\* the map closure of list_services: (&s.0, label, &s.1, s.2)
labelled(snapshot) ==
    [i \in 1..Len(snapshot) |->
        << snapshot[i][1], label(snapshot[i][1]), snapshot[i][2], snapshot[i][3] >>]

\* slice::sort_by_key, a stable sort: each row goes after the rows whose key
\* is not greater
RECURSIVE sort_by_key(_)
sort_by_key(list) ==
    IF list = << >> THEN << >>
    ELSE LET sorted == sort_by_key(SubSeq(list, 1, Len(list) - 1))
             row == list[Len(list)]
             n == Cardinality({i \in 1..Len(sorted) : key_le(sorted[i], row)})
         IN  SubSeq(sorted, 1, n) \o << row >> \o SubSeq(sorted, n + 1, Len(sorted))

\* ------------------------------------------------------------ initial state
\* Proxy::new, then Proxy::run has spawned both tasks: discovery_thread is
\* awaiting its first query, cleanup_thread its initial sleep.
Init ==
    /\ services = [k \in Ids |-> Absent]
    /\ lock = "free"
    /\ poisoned = FALSE
    /\ mono = 0
    /\ offset = 0
    /\ steps = 0
    /\ dpc = "query"
    /\ batch = 0
    /\ dWake = 0
    /\ cpc = "sleep"
    /\ cWake = CLEANUP_INITIAL_DELAY
    /\ hpc = "idle"
    /\ hid = NoId
    /\ found = NotRun
    /\ listed = << >>
    /\ hmethod = NoMethod
    /\ hform = NotRun
    /\ call = NotRun
    /\ page = NoPage
    /\ rows = << >>
    /\ last_seen = [k \in Ids |-> Never]
    /\ last_upsert = [k \in Ids |-> Never]
    /\ iterated = << >>

\* ------------------------------------------------------------ the Mutex

\* a task panics: a MutexGuard dropped during the unwinding poisons the Mutex
poison(task) == poisoned \/ lock = task

\* ------------------------------------------------------------ discovery_thread

\* coap.service_discovery(None, None).await returns Ok(resp); an empty
\* response skips the for loop: sleep(Self::DISCOVERY_PERIOD).await
discovery_thread_query_ok(len) ==
    /\ dpc = "query"
    /\ batch' = len
    /\ IF len = 0
          THEN dpc' = "sleep" /\ dWake' = mono + DISCOVERY_PERIOD
          ELSE dpc' = "for" /\ dWake' = dWake
    /\ UNCHANGED << services, lock, poisoned >>
    /\ UNCHANGED << clockVars, cleanVars, handlerVars, historyVars >>

\* (variant: the error is met after an entry has been stored)
discovery_thread_query_err_partial ==
    /\ dpc = "query"
    /\ dpc' = "panicked"
    /\ services' = insert(services, "ll", ProxyEntry(now, NoType, Addr2))
    /\ last_seen' = [last_seen EXCEPT !["ll"] = [at |-> now]]
    /\ last_upsert' = [last_upsert EXCEPT
                          !["ll"] = [service_type |-> NoType, address |-> Addr2]]
    /\ poisoned' = poison("discovery")
    /\ UNCHANGED << lock, batch, dWake, iterated >>
    /\ UNCHANGED << clockVars, cleanVars, handlerVars >>

\* (variant: the response is awaited with the guard alive)
discovery_thread_query_err_guarded ==
    /\ dpc = "query"
    /\ lock = "free"
    /\ dpc' = "panicked"
    /\ poisoned' = TRUE
    /\ UNCHANGED << services, lock, batch, dWake >>
    /\ UNCHANGED << clockVars, cleanVars, handlerVars, historyVars >>

\* coap.service_discovery(None, None).await returns Err: unwrap() panics and
\* the task ends; the lock is not held
discovery_thread_query_err ==
    /\ dpc = "query"
    /\ dpc' = "panicked"
    /\ poisoned' = poison("discovery")
    /\ UNCHANGED << services, lock, batch, dWake >>
    /\ UNCHANGED << clockVars, cleanVars, handlerVars, historyVars >>

\* for service in services { self.services.lock().unwrap() ...: lock() gives
\* Err on a poisoned Mutex and unwrap() panics
discovery_thread_lock ==
    /\ dpc = "for"
    /\ batch > 0
    /\ lock = "free"
    /\ IF poisoned
          THEN lock' = lock /\ dpc' = "panicked"
          ELSE lock' = "discovery" /\ dpc' = "insert"
    /\ UNCHANGED << services, poisoned, batch, dWake >>
    /\ UNCHANGED << clockVars, cleanVars, handlerVars, historyVars >>

\* ... .insert(service.0, ProxyEntry { SystemTime::now(), service.1, service.2 }) }
\* and the guard is dropped at the end of the statement; after the last entry
\* of the response, sleep(Self::DISCOVERY_PERIOD).await
discovery_thread_insert(s) ==
    /\ dpc = "insert"
    /\ services' = insert(services, s[1], ProxyEntry(now, s[2], s[3]))
    /\ last_seen' = [last_seen EXCEPT ![s[1]] = [at |-> now]]
    /\ last_upsert' = [last_upsert EXCEPT
                          ![s[1]] = [service_type |-> s[2], address |-> s[3]]]
    /\ iterated' = Append(iterated, s)
    /\ batch' = batch - 1
    /\ lock' = "free"
    /\ IF batch = 1
          THEN dpc' = "sleep" /\ dWake' = mono + DISCOVERY_PERIOD
          ELSE dpc' = "for" /\ dWake' = dWake
    /\ UNCHANGED poisoned
    /\ UNCHANGED << clockVars, cleanVars, handlerVars >>

\* the sleep has elapsed: next iteration of the loop
discovery_thread_wake ==
    /\ dpc = "sleep"
    /\ mono >= dWake
    /\ dpc' = "query"
    /\ iterated' = << >>
    /\ UNCHANGED << services, lock, poisoned, batch, dWake >>
    /\ UNCHANGED << clockVars, cleanVars, handlerVars, last_seen, last_upsert >>

\* ------------------------------------------------------------ cleanup_thread

\* a sleep (the initial delay or the period) has elapsed:
\* self.services.lock().unwrap() ...: lock() gives Err on a poisoned Mutex and
\* unwrap() panics
cleanup_thread_lock ==
    /\ cpc = "sleep"
    /\ mono >= cWake
    /\ lock = "free"
    /\ IF poisoned
          THEN lock' = lock /\ cpc' = "panicked"
          ELSE lock' = "cleanup" /\ cpc' = "retain"
    /\ UNCHANGED << services, poisoned, cWake >>
    /\ UNCHANGED << clockVars, discVars, handlerVars, historyVars >>

\* (variant: the guard lives until the end of the loop body, across the sleep)
cleanup_thread_retain_guard_kept ==
    /\ cpc = "retain"
    /\ services' = retain(services, now)
    /\ last_upsert' = [k \in Ids |->
                          IF services'[k] = Absent THEN Never ELSE last_upsert[k]]
    /\ lock' = lock
    /\ cpc' = "sleep"
    /\ cWake' = mono + CLEANUP_PERIOD
    /\ UNCHANGED << poisoned, last_seen, iterated >>
    /\ UNCHANGED << clockVars, discVars, handlerVars >>

\* ... .retain(|_, v| ...); the guard is dropped; sleep(Self::CLEANUP_PERIOD).await
cleanup_thread_retain ==
    /\ cpc = "retain"
    /\ services' = retain(services, now)
    /\ last_upsert' = [k \in Ids |->
                          IF services'[k] = Absent THEN Never ELSE last_upsert[k]]
    /\ lock' = "free"
    /\ cpc' = "sleep"
    /\ cWake' = mono + CLEANUP_PERIOD
    /\ UNCHANGED << poisoned, last_seen, iterated >>
    /\ UNCHANGED << clockVars, discVars, handlerVars >>

\* ------------------------------------------------------------ handlers

\* a request for /service/{id} is routed to service(), which calls
\* Proxy::service: self.services.lock().unwrap() ...
service_lock(id) ==
    /\ hpc = "idle"
    /\ lock = "free"
    /\ hid' = id
    /\ IF poisoned
          THEN lock' = lock /\ hpc' = "done" /\ page' = "Aborted"
          ELSE lock' = "handler" /\ hpc' = "service_lock" /\ page' = page
    /\ UNCHANGED << services, poisoned, found, listed, hmethod, hform, call, rows >>
    /\ UNCHANGED << clockVars, discVars, cleanVars, historyVars >>

\* (variant: the lookup takes the record out of the map)
service_get_remove ==
    /\ hpc = "service_lock"
    /\ found' = service(services, hid)
    /\ services' = [services EXCEPT ![hid] = Absent]
    /\ lock' = "free"
    /\ hpc' = "service_got"
    /\ UNCHANGED << poisoned, hid, listed, flowVars >>
    /\ UNCHANGED << clockVars, discVars, cleanVars, historyVars >>

\* Proxy::service: ... .get(name).map(...); the guard is dropped
service_get ==
    /\ hpc = "service_lock"
    /\ found' = service(services, hid)
    /\ lock' = "free"
    /\ hpc' = "service_got"
    /\ UNCHANGED << services, poisoned, hid, listed, flowVars >>
    /\ UNCHANGED << clockVars, discVars, cleanVars, historyVars >>

\* service() returns its page
service_return ==
    /\ hpc = "service_got"
    /\ hpc' = "idle"
    /\ hid' = NoId
    /\ found' = NotRun
    /\ UNCHANGED << services, lock, poisoned, listed, flowVars >>
    /\ UNCHANGED << clockVars, discVars, cleanVars, historyVars >>

\* a request for /services is routed to list_services(), which calls
\* Proxy::all: self.services.lock().unwrap() ...
all_lock ==
    /\ hpc = "idle"
    /\ lock = "free"
    /\ IF poisoned
          THEN lock' = lock /\ hpc' = "done" /\ page' = "Aborted"
          ELSE lock' = "handler" /\ hpc' = "list_lock" /\ page' = page
    /\ UNCHANGED << services, poisoned, hid, found, listed, hmethod, hform, call, rows >>
    /\ UNCHANGED << clockVars, discVars, cleanVars, historyVars >>

\* Proxy::all: ... .iter().map(...).collect(); the guard is dropped
all_collect ==
    /\ hpc = "list_lock"
    /\ listed' \in all(services)
    /\ lock' = "free"
    /\ hpc' = "list_got"
    /\ UNCHANGED << services, poisoned, hid, found, flowVars >>
    /\ UNCHANGED << clockVars, discVars, cleanVars, historyVars >>

\* list_services() returns its page
list_return ==
    /\ hpc = "list_got"
    /\ hpc' = "idle"
    /\ listed' = << >>
    /\ UNCHANGED << services, lock, poisoned, hid, found, flowVars >>
    /\ UNCHANGED << clockVars, discVars, cleanVars, historyVars >>

\* ------------------------------------------------------------ pages
\* the handler's locals when no request is being handled
HandlerIdle ==
    /\ hpc' = "idle"
    /\ hid' = NoId
    /\ found' = NotRun
    /\ listed' = << >>
    /\ hmethod' = NoMethod
    /\ hform' = NotRun
    /\ call' = NotRun
    /\ page' = NoPage
    /\ rows' = << >>

\* a CoAP call of the handler that has not returned yet
Call(op, payload) ==
    [op |-> op, addr |-> found.address, id |-> hid, payload |-> payload,
     result |-> "pending"]

\* (variant: a type that is not known is handled as a shade controller)
service_resolve_default_shcnt ==
    /\ hpc = "service_got"
    /\ IF found = Absent THEN hpc' = "done" /\ page' = "NotDiscovered"
       ELSE IF found.service_type = NoType THEN hpc' = "done" /\ page' = "Untyped"
       ELSE IF found.service_type = "rgbw" THEN hpc' = "rgbw_extract" /\ page' = page
       ELSE hpc' = "shcnt_extract" /\ page' = page
    /\ UNCHANGED << services, lock, poisoned, hid, found, listed, hmethod, hform, call, rows >>
    /\ UNCHANGED << clockVars, discVars, cleanVars, historyVars >>

\* service(): the lookup gave None, or the type is None, or the match on the
\* type calls service_rgbw or service_shcnt or gives the unknown type page
service_resolve ==
    /\ hpc = "service_got"
    /\ IF found = Absent THEN hpc' = "done" /\ page' = "NotDiscovered"
       ELSE IF found.service_type = NoType THEN hpc' = "done" /\ page' = "Untyped"
       ELSE IF found.service_type = "rgbw" THEN hpc' = "rgbw_extract" /\ page' = page
       ELSE IF found.service_type = "shcnt" THEN hpc' = "shcnt_extract" /\ page' = page
       ELSE hpc' = "done" /\ page' = "UnknownType"
    /\ UNCHANGED << services, lock, poisoned, hid, found, listed, hmethod, hform, call, rows >>
    /\ UNCHANGED << clockVars, discVars, cleanVars, historyVars >>

\* service_rgbw: request.extract::<Form<Rgbw>, _>().await; with Ok the payload
\* is built (a channel may panic) and coap.set is called, otherwise coap.get
service_rgbw_extract(request) ==
    /\ hpc = "rgbw_extract"
    /\ hmethod' = request.method
    /\ hform' = [data |-> form_data(request), form |-> extract_rgbw(request)]
    /\ LET rgbw == extract_rgbw(request)
       IN  IF rgbw = ParseErr
              THEN /\ call' = Call("GET", Missing)
                   /\ hpc' = "rgbw_get"
                   /\ page' = page
           ELSE IF \E idx \in 0..2 : channel(rgbw.rgb, idx) = Panic
              THEN /\ call' = call
                   /\ hpc' = "done"
                   /\ page' = "Aborted"
           ELSE /\ call' = Call("SET", [r |-> channel(rgbw.rgb, 0).val,
                                        g |-> channel(rgbw.rgb, 1).val,
                                        b |-> channel(rgbw.rgb, 2).val,
                                        w |-> rgbw.w,
                                        d |-> 3000])
                /\ hpc' = "rgbw_set"
                /\ page' = page
    /\ UNCHANGED << services, lock, poisoned, hid, found, listed, rows >>
    /\ UNCHANGED << clockVars, discVars, cleanVars, historyVars >>

\* service_rgbw: let _ = coap.set(..).await; the submitted values are rendered
service_rgbw_set(res) ==
    /\ hpc = "rgbw_set"
    /\ call' = [call EXCEPT !.result = res]
    /\ page' = "Rendered"
    /\ hpc' = "done"
    /\ UNCHANGED << services, lock, poisoned, hid, found, listed, hmethod, hform, rows >>
    /\ UNCHANGED << clockVars, discVars, cleanVars, historyVars >>

\* service_rgbw: coap.get(..).await has returned; the page for the reply
service_rgbw_get(response) ==
    /\ hpc = "rgbw_get"
    /\ call' = [call EXCEPT !.result = IF response.kind = "IoErr" THEN "IoErr" ELSE "Ok"]
    /\ page' = rgbw_page(response)
    /\ hpc' = "done"
    /\ UNCHANGED << services, lock, poisoned, hid, found, listed, hmethod, hform, rows >>
    /\ UNCHANGED << clockVars, discVars, cleanVars, historyVars >>

\* service_shcnt: request.extract::<Form<Shcnt>, _>().await; with Ok coap.set
\* is called, otherwise coap.get
service_shcnt_extract(request) ==
    /\ hpc = "shcnt_extract"
    /\ hmethod' = request.method
    /\ hform' = [data |-> form_data(request), form |-> extract_shcnt(request)]
    /\ LET shcnt == extract_shcnt(request)
       IN  IF shcnt = ParseErr
              THEN /\ call' = Call("GET", Missing)
                   /\ hpc' = "shcnt_get"
           ELSE /\ call' = Call("SET", [val |-> shcnt.pos])
                /\ hpc' = "shcnt_set"
    /\ UNCHANGED << services, lock, poisoned, hid, found, listed, page, rows >>
    /\ UNCHANGED << clockVars, discVars, cleanVars, historyVars >>

\* service_shcnt: let _ = coap.set(..).await; the submitted value is rendered
service_shcnt_set(res) ==
    /\ hpc = "shcnt_set"
    /\ call' = [call EXCEPT !.result = res]
    /\ page' = "Rendered"
    /\ hpc' = "done"
    /\ UNCHANGED << services, lock, poisoned, hid, found, listed, hmethod, hform, rows >>
    /\ UNCHANGED << clockVars, discVars, cleanVars, historyVars >>

\* service_shcnt: coap.get(..).await has returned; the page for the reply
service_shcnt_get(response) ==
    /\ hpc = "shcnt_get"
    /\ call' = [call EXCEPT !.result = IF response.kind = "IoErr" THEN "IoErr" ELSE "Ok"]
    /\ page' = shcnt_page(response)
    /\ hpc' = "done"
    /\ UNCHANGED << services, lock, poisoned, hid, found, listed, hmethod, hform, rows >>
    /\ UNCHANGED << clockVars, discVars, cleanVars, historyVars >>

\* list_services: the rows are labelled and sorted, and the page is rendered
list_services_sort ==
    /\ hpc = "list_got"
    /\ rows' = sort_by_key(labelled(listed))
    /\ page' = "List"
    /\ hpc' = "done"
    /\ UNCHANGED << services, lock, poisoned, hid, found, listed, hmethod, hform, call >>
    /\ UNCHANGED << clockVars, discVars, cleanVars, historyVars >>

\* the page has been sent (or the connection closed after a panic)
handler_done ==
    /\ hpc = "done"
    /\ HandlerIdle
    /\ UNCHANGED << services, lock, poisoned >>
    /\ UNCHANGED << clockVars, discVars, cleanVars, historyVars >>

\* the points where a handler is suspended in an await
AwaitPoints ==
    {"rgbw_extract", "rgbw_set", "rgbw_get", "shcnt_extract", "shcnt_set", "shcnt_get"}

\* the client goes away while the handler is suspended: its future is dropped
handler_cancel ==
    /\ hpc \in AwaitPoints
    /\ HandlerIdle
    /\ UNCHANGED << services, lock, poisoned >>
    /\ UNCHANGED << clockVars, discVars, cleanVars, historyVars >>

\* ------------------------------------------------------------ time

\* the sleeps that are pending
Deadlines ==
    (IF dpc = "sleep" THEN {dWake} ELSE {}) \cup (IF cpc = "sleep" THEN {cWake} ELSE {})

\* every task is suspended: discovery_thread in its query or its sleep (or
\* gone), cleanup_thread in its sleep, and no handler is running
Suspended ==
    /\ dpc \in {"query", "sleep", "panicked"}
    /\ cpc \in {"sleep", "panicked"}
    /\ hpc = "idle"

\* Time passes only while every task is suspended (the discovery query and the
\* sleeps), and stops at the next deadline so that a sleep ends when it is due.
tick ==
    /\ Suspended
    /\ \A d \in Deadlines : d > mono
    /\ \E next \in Deadlines :
          /\ \A d \in Deadlines : next <= d
          /\ next <= MaxTime
          /\ mono' = next
    /\ UNCHANGED << services, lock, poisoned, offset, steps >>
    /\ UNCHANGED << discVars, cleanVars, handlerVars, historyVars >>

\* the wall clock is stepped (set by an operator or by time synchronisation)
clock_step ==
    /\ Suspended
    /\ steps < MaxClockSteps
    /\ steps' = steps + 1
    /\ \E d \in {0 - ClockJump, ClockJump} : offset' = offset + d
    /\ UNCHANGED << services, lock, poisoned, mono >>
    /\ UNCHANGED << discVars, cleanVars, handlerVars, historyVars >>

\* ------------------------------------------------------------ specification
\* the steps of the two background tasks
Background ==
    \/ \E len \in ResponseLengths : discovery_thread_query_ok(len)
    \/ discovery_thread_query_err
    \/ discovery_thread_lock
    \/ \E s \in Announce : discovery_thread_insert(s)
    \/ discovery_thread_wake
    \/ cleanup_thread_lock
    \/ cleanup_thread_retain

\* the steps of a request handler
Handler ==
    \/ \E id \in Ids : service_lock(id)
    \/ service_get
    \/ service_return
    \/ all_lock
    \/ all_collect
    \/ list_return

\* the gateway with a wall clock that follows the monotonic clock
Next == Background \/ Handler \/ tick

Spec == Init /\ [][Next]_vars

\* the background tasks with a wall clock that may be stepped
NextClock == Background \/ tick \/ clock_step

SpecClock == Init /\ [][NextClock]_vars

\* the steps of a request handler up to the page it returns
Pages ==
    \/ \E id \in Ids : service_lock(id)
    \/ service_get
    \/ service_resolve
    \/ \E request \in Requests(RgbwData, NoRgbwData) : service_rgbw_extract(request)
    \/ \E res \in SetResults : service_rgbw_set(res)
    \/ \E response \in RgbwReplies : service_rgbw_get(response)
    \/ \E request \in Requests(ShcntData, NoShcntData) : service_shcnt_extract(request)
    \/ \E res \in SetResults : service_shcnt_set(res)
    \/ \E response \in ShcntReplies : service_shcnt_get(response)
    \/ all_lock
    \/ all_collect
    \/ list_services_sort
    \/ handler_done
    \/ handler_cancel

\* the first discovery cycle
Discovery ==
    \/ \E len \in ResponseLengths : discovery_thread_query_ok(len)
    \/ discovery_thread_query_err
    \/ discovery_thread_lock
    \/ \E s \in Announce : discovery_thread_insert(s)

\* the handlers with their pages, beside the first discovery cycle
NextHttp == Discovery \/ Pages

SpecHttp == Init /\ [][NextHttp]_vars

\* ids and types of the records listed below; "x1" has no registered name
ListIds == {"ap", "dr1", "x1"}
ListTypes == {NoType, "rgbw", "shcnt"}

\* contents of the map at the time of a request for /services
ListMaps ==
    [ListIds -> {Absent} \cup {ProxyEntry(0, t, Addr1) : t \in ListTypes}]

\* list_services has got the snapshot of a map that discovery_thread has
\* filled at time 0
InitList ==
    /\ \E m \in ListMaps :
          /\ services = m
          /\ listed \in all(m)
    /\ lock = "free"
    /\ poisoned = FALSE
    /\ mono = 0
    /\ offset = 0
    /\ steps = 0
    /\ dpc = "sleep"
    /\ batch = 0
    /\ dWake = DISCOVERY_PERIOD
    /\ cpc = "sleep"
    /\ cWake = CLEANUP_INITIAL_DELAY
    /\ hpc = "list_got"
    /\ hid = NoId
    /\ found = NotRun
    /\ hmethod = NoMethod
    /\ hform = NotRun
    /\ call = NotRun
    /\ page = NoPage
    /\ rows = << >>
    /\ last_seen = [k \in Ids |-> Never]
    /\ last_upsert = [k \in Ids |-> Never]
    /\ iterated = << >>

\* the list page for one snapshot
NextList == list_services_sort \/ handler_done

SpecList == InitList /\ [][NextList]_vars

\* the gateway when a task that holds the Mutex keeps running until it drops
\* the guard, and a task that waits for the Mutex is not passed over for ever
Fairness ==
    /\ SF_vars(discovery_thread_lock)
    /\ SF_vars(cleanup_thread_lock)
    /\ WF_vars(\E s \in Announce : discovery_thread_insert(s))
    /\ WF_vars(cleanup_thread_retain)
    /\ WF_vars(service_get)
    /\ WF_vars(all_collect)

\* the same steps over the first cycles of the two background tasks
NextFair == Background \/ Handler \/ (tick /\ mono' <= MaxFairTime)

SpecFair == Init /\ [][NextFair]_vars /\ Fairness

\* ------------------------------------------------------------ claims

Present(id) == services[id] # Absent

\* SystemTime::now() minus the record's update_timestamp
Age(id) == now - services[id].update_timestamp

\* an expiry sweep has run at the current instant
SweptNow == cpc = "sleep" /\ cWake = mono + CLEANUP_PERIOD

\* C1: a lookup of id returns exactly the (type, address) of the latest
\* upsert of id, when no sweep has evicted id since, and returns absent when
\* id has no record.
C1_LookupReturnsLatestUpsert ==
    [][ (hpc = "service_lock" /\ hpc' = "service_got") =>
            found' = IF last_upsert[hid] = Never THEN Absent ELSE last_upsert[hid] ]_vars

\* a lookup of "ll" has returned its second announcement, upserted by a later
\* discovery cycle than the first
C1_Witness ==
    /\ hpc = "service_got"
    /\ hid = "ll"
    /\ found = [service_type |-> NoType, address |-> Addr2]
    /\ last_seen["ll"] # Never
    /\ last_seen["ll"].at >= DISCOVERY_PERIOD

\* C2: the (type, address) a lookup of id returns is the pair of one upsert of
\* id, never the type of one upsert with the address of another.  (The two
\* announcements of each id differ in both fields, so a mixed pair is no
\* announcement of the id.)
C2_NoTornLookup ==
    (hpc = "service_got" /\ found # Absent) =>
        << hid, found.service_type, found.address >> \in Announce

\* the handler holds the pair of one upsert while the record has already been
\* replaced by another and the discovery task is inside its next upsert
C2_Witness ==
    /\ hpc = "service_got"
    /\ found # Absent
    /\ Present(hid)
    /\ services[hid].address # found.address
    /\ lock = "discovery"

\* C3: a failed discovery call does not end the discovery task: the task is
\* always in its query, its for loop or its sleep.
C3_DiscoveryTaskSurvivesFailure == dpc \in {"query", "for", "insert", "sleep"}

\* C4: the cycle whose discovery call fails changes no record, and nothing is
\* inserted or replaced after it.
C4_FailedCycleLeavesDirectory ==
    [][ dpc' = "panicked" =>
            /\ dpc = "query" => services' = services
            /\ \A id \in Ids : services'[id] \in {services[id], Absent} ]_vars

\* the discovery call has failed with a record in the Directory
C4_Witness == dpc = "panicked" /\ Present("ll") /\ Present("k")

\* C5: with a wall clock that is not stepped, no record is older than
\* CLEANUP_TIMEOUT + CLEANUP_PERIOD, and when a sweep has run no record of age
\* CLEANUP_TIMEOUT or more is left.
C5_StalenessBounded ==
    \A id \in Ids :
        Present(id) =>
            /\ Age(id) < CLEANUP_TIMEOUT + CLEANUP_PERIOD
            /\ SweptNow => Age(id) < CLEANUP_TIMEOUT

\* a sweep has run and a device last discovered CLEANUP_TIMEOUT or longer ago
\* has no record
C5_Witness ==
    /\ SweptNow
    /\ \E id \in Ids :
          /\ ~Present(id)
          /\ last_seen[id] # Never
          /\ now - last_seen[id].at > CLEANUP_TIMEOUT

\* C6: with a wall clock that is not stepped, a record is removed only when
\* its id has not been upserted for more than 2 * DISCOVERY_PERIOD: a device
\* that misses a single cycle is not evicted.
C6_OneMissedCycleKeepsDevice ==
    [][ \A id \in Ids :
            (Present(id) /\ services'[id] = Absent) =>
                Age(id) > 2 * DISCOVERY_PERIOD ]_vars

\* a device that was last upserted two discovery periods ago, and has been
\* through the sweeps since, still has its record when the discovery task is
\* about to upsert again
C6_Witness ==
    /\ dpc = "insert"
    /\ SweptNow
    /\ \E id \in Ids : Present(id) /\ Age(id) = 2 * DISCOVERY_PERIOD

\* C7 as stated: a record is present iff its id was discovered and the latest
\* last_seen is younger than CLEANUP_TIMEOUT.
C7_PresentIffFresh ==
    \A id \in Ids :
        Present(id) <=>
            (last_seen[id] # Never /\ now - last_seen[id].at < CLEANUP_TIMEOUT)

\* C7 amended: with a wall clock that is not stepped, a discovered id whose
\* latest last_seen is younger than CLEANUP_TIMEOUT has a record; a record is of
\* a discovered id, carries the latest last_seen, and is younger than
\* CLEANUP_TIMEOUT + CLEANUP_PERIOD.
C7_PresentIffFreshUpToSweep ==
    \A id \in Ids :
        /\ (last_seen[id] # Never /\ now - last_seen[id].at < CLEANUP_TIMEOUT)
              => Present(id)
        /\ Present(id) =>
              /\ last_seen[id] # Never
              /\ services[id].update_timestamp = last_seen[id].at
              /\ now - last_seen[id].at < CLEANUP_TIMEOUT + CLEANUP_PERIOD

\* a record that has aged past CLEANUP_TIMEOUT and is still present, the next
\* sweep not having run yet
C7_Witness ==
    \E id \in Ids : Present(id) /\ Age(id) >= CLEANUP_TIMEOUT /\ cpc = "sleep"

\* C8: a sweep removes every record whose age is CLEANUP_TIMEOUT or more.
C8_SweepEvictsAtBoundary ==
    [][ (cpc = "retain" /\ cpc' = "sleep") =>
            \A id \in Ids :
                (Present(id) /\ Age(id) >= CLEANUP_TIMEOUT) => services'[id] = Absent ]_vars

\* a sweep has run exactly CLEANUP_TIMEOUT after a device was last seen, and
\* the device has no record
C8_Witness ==
    /\ SweptNow
    /\ \E id \in Ids :
          /\ ~Present(id)
          /\ last_seen[id] # Never
          /\ now - last_seen[id].at = CLEANUP_TIMEOUT

\* C9: a sweep that finds the clock earlier than a record's last_seen keeps
\* that record unchanged, and the task goes on to its next sleep.
C9_ClockAnomalyRetains ==
    [][ cpc = "retain" =>
            /\ cpc' \in {"retain", "sleep"}
            /\ cpc' = "sleep" =>
                  /\ cWake' = mono + CLEANUP_PERIOD
                  /\ \A id \in Ids :
                        (Present(id) /\ now < services[id].update_timestamp) =>
                            services'[id] = services[id] ]_vars

\* a sweep has run after the wall clock was stepped back: one record was
\* stored before the step and lies in the future, another was stored after
\* the step at an earlier instant than the sweep's
C9_Witness ==
    /\ SweptNow
    /\ \E a, b \in Ids :
          /\ Present(a) /\ services[a].update_timestamp > now
          /\ Present(b) /\ services[b].update_timestamp < 0
          /\ services[b].update_timestamp < now

\* the triples of the records the Directory holds
Triples(map) ==
    { << k, map[k].service_type, map[k].address >> : k \in { j \in DOMAIN map : map[j] # Absent } }

\* C10: the sequence snapshot_all returns holds one triple per record of the
\* Directory as it is when the copy is made, nothing else, and it does not
\* change when the Directory changes afterwards.
C10_SnapshotAtomic ==
    [][ /\ (hpc = "list_lock" /\ hpc' = "list_got") =>
            /\ Len(listed') = Cardinality({ k \in Ids : Present(k) })
            /\ { listed'[i] : i \in 1..Len(listed') } = Triples(services)
        /\ (hpc = "list_got" /\ hpc' = "list_got") => listed' = listed ]_vars

\* a snapshot of two records is held by the handler while one of them has
\* since been replaced in the Directory
C10_Witness ==
    /\ hpc = "list_got"
    /\ Len(listed) = 2
    /\ \E i \in 1..2 :
          /\ Present(listed[i][1])
          /\ services[listed[i][1]].address # listed[i][3]

\* a task stands at the point where the code holds a MutexGuard
HoldsGuard(task) ==
    \/ task = "discovery" /\ dpc = "insert"
    \/ task = "cleanup" /\ cpc = "retain"
    \/ task = "handler" /\ hpc \in {"service_lock", "list_lock"}

\* a task waits in lock()
discovery_waits == dpc = "for"
cleanup_waits == cpc = "sleep" /\ mono >= cWake

C20_LockNeverPoisoned ==
    /\ ~poisoned
    /\ dpc = "panicked" => lock # "discovery"
    /\ cpc # "panicked"
    /\ page # "Aborted"

\* after the failed query the sweep has run and a handler holds the guard
C20_Witness ==
    /\ dpc = "panicked"
    /\ SweptNow
    /\ lock = "handler"

\* the ids of the entries the for loop has gone through
IteratedIds == {iterated[i][1] : i \in 1..Len(iterated)}

\* the last entry for id among those the for loop has gone through
LastOccurrence(id) ==
    iterated[CHOOSE i \in 1..Len(iterated) :
                /\ iterated[i][1] = id
                /\ \A j \in (i + 1)..Len(iterated) : iterated[j][1] # id]

\* C18: the entries of one response are upserted one by one in the order of
\* the response, each replacing the whole record: for every id the loop has
\* gone through, the record holds the type and the address of the last entry
\* for that id, also when the id occurs twice in the response.
C18_LastOccurrenceWins ==
    \A id \in IteratedIds :
        /\ Present(id)
        /\ services[id].service_type = LastOccurrence(id)[2]
        /\ services[id].address = LastOccurrence(id)[3]
        /\ [at |-> services[id].update_timestamp] = last_seen[id]

\* one response has carried the same id twice, with different types and
\* addresses, and the loop has gone through both entries
C18_Witness ==
    /\ Len(iterated) = 2
    /\ iterated[1][1] = iterated[2][1]
    /\ iterated[1][2] # iterated[2][2]
    /\ iterated[1][3] # iterated[2][3]
    /\ dpc = "sleep"

\* the step is the retain of an expiry sweep
SweepStep == cpc = "retain" /\ cpc' = "sleep"

\* the step is the insert of one entry of a response
UpsertStep == dpc = "insert" /\ dpc' # "insert"

\* C19: a sweep removes no record younger than CLEANUP_TIMEOUT and leaves
\* every record it keeps as it was; the upsert of one id leaves the records
\* of all other ids as they were.
C19_SweepAndUpsertFrame ==
    [][/\ SweepStep =>
            \A id \in Ids :
                /\ services'[id] \in {services[id], Absent}
                /\ Present(id) /\ Age(id) < CLEANUP_TIMEOUT
                       => services'[id] = services[id]
       /\ UpsertStep =>
            \A id \in Ids \ {iterated'[Len(iterated')][1]} :
                services'[id] = services[id]]_vars

\* a sweep has just removed the record of one id and kept the younger record
\* of the other
C19_Witness ==
    /\ SweptNow
    /\ \E a, b \in Ids :
          /\ Present(a)
          /\ Age(a) > 0
          /\ ~Present(b)
          /\ last_seen[b] # Never
          /\ now - last_seen[b].at >= CLEANUP_TIMEOUT
          /\ now - last_seen[b].at < CLEANUP_TIMEOUT + CLEANUP_PERIOD

\* service() has gone past its lookup and its match on the type
Resolved == hid # NoId /\ hpc \notin {"idle", "service_lock", "service_got"}

\* C12: /service/{id} resolves in order: no record gives the NotDiscovered
\* page, a record without a type the Untyped page, a type other than rgbw and
\* shcnt the UnknownType page; no CoAP call is made for these three, and only
\* a record of type rgbw or shcnt gets to service_rgbw or service_shcnt.
C12_ResolveOrder ==
    Resolved /\ page # "Aborted" =>
        /\ found = Absent <=> page = "NotDiscovered"
        /\ found # Absent =>
              /\ found.service_type = NoType <=> page = "Untyped"
              /\ found.service_type \notin {NoType, "rgbw", "shcnt"}
                    <=> page = "UnknownType"
        /\ page \in {"NotDiscovered", "Untyped", "UnknownType"} => call = NotRun
        /\ hpc \in AwaitPoints \/ call # NotRun =>
              /\ found # Absent
              /\ found.service_type \in {"rgbw", "shcnt"}
              /\ found.service_type = "rgbw" <=> hpc \in {"rgbw_extract", "rgbw_set", "rgbw_get"}
                                                   \/ (hpc = "done" /\ "rgb" \in DOMAIN hform.data)

\* a record with a type that is not known has given the UnknownType page
C12_Witness ==
    /\ hpc = "done"
    /\ page = "UnknownType"
    /\ found # Absent
    /\ found.service_type = "lamp"
    /\ call = NotRun

\* C13: for a typed device the method decides the operation: a GET request
\* calls coap.get and never coap.set, a POST request calls coap.set.
C13_MethodDecidesOperation ==
    call # NotRun =>
        /\ hmethod = "GET" => call.op = "GET"
        /\ hmethod = "POST" => call.op = "SET"

\* C14: when coap.get or coap.set returns an I/O error the request ends in
\* the error page that names the id and the cause, never in the rendered page.
C14_IoErrorSurfaced ==
    call # NotRun /\ call.result = "IoErr" => page = "InvalidResponse"

\* rgb is six hex digits after at most one "#"
IsHex6(rgb) ==
    LET digits == IF rgb # << >> /\ Head(rgb) = "#" THEN Tail(rgb) ELSE rgb
    IN  /\ Len(digits) = 6
        /\ \A i \in 1..Len(digits) : digits[i] \in DOMAIN HexVal

\* a number field is present and within 0..255
IsU8(field) == field # Missing /\ field.text >= 0 /\ field.text <= U8_MAX

\* the submitted form parses, as the specification defines it
WellFormed(data) ==
    IF "rgb" \in DOMAIN data
       THEN data.rgb # Missing /\ IsHex6(data.rgb.text) /\ IsU8(data.w)
       ELSE IsU8(data.pos)

\* C16: a POST for a typed device whose form does not parse is rejected: the
\* request ends without a CoAP SET, without the rendered page and without a
\* panic; a form with w or pos equal to 0 or 255 is accepted and sent.
C16_BadFormRejected ==
    hmethod = "POST" /\ hpc = "done" =>
        IF WellFormed(hform.data)
           THEN call # NotRun /\ call.op = "SET"
           ELSE /\ call = NotRun \/ call.op # "SET"
                /\ page \notin {"Rendered", "Aborted"}

\* C17: no step of a handler changes the map, whatever page or panic the
\* handler ends in and also when it is dropped at an await; the map changes
\* only in the insert of discovery_thread.
C17_HandlersLeaveDirectory ==
    [][/\ handlerVars' # handlerVars => services' = services
       /\ services' # services => UpsertStep]_vars

\* a handler has ended in the page for a failed coap.get while discovery_thread
\* has replaced the record it had looked up
C17_Witness ==
    /\ hpc = "done"
    /\ page = "InvalidResponse"
    /\ found # Absent
    /\ Present(hid)
    /\ service(services, hid) # found

\* the rows are the rows of the snapshot, each once, with the registered name
\* of the id, or the id, as the label
RowsOfSnapshot ==
    /\ Len(rows) = Len(listed)
    /\ {rows[i] : i \in 1..Len(rows)}
          = {<< listed[i][1],
                IF listed[i][1] \in DOMAIN SERVICE_NAMES
                   THEN SERVICE_NAMES[listed[i][1]] ELSE listed[i][1],
                listed[i][2], listed[i][3] >> : i \in 1..Len(listed)}

\* the type of row a comes before that of row b when an absent type is put
\* after every type
TypeBeforeAbsentLast(a, b) ==
    /\ a[3] # b[3]
    /\ b[3] = NoType \/ (a[3] # NoType /\ str_rank(a[3]) < str_rank(b[3]))

\* the type of row a comes before that of row b when an absent type is put
\* before every type
TypeBeforeAbsentFirst(a, b) ==
    /\ a[3] # b[3]
    /\ a[3] = NoType \/ (b[3] # NoType /\ str_rank(a[3]) < str_rank(b[3]))

\* C15 as stated: the list page holds the rows of the snapshot sorted by
\* (type, label), the rows without a type after all rows with a type.
C15_SortedAbsentLast ==
    page = "List" =>
        /\ RowsOfSnapshot
        /\ \A i, j \in 1..Len(rows) :
              i < j => \/ TypeBeforeAbsentLast(rows[i], rows[j])
                       \/ rows[i][3] = rows[j][3]
                             /\ str_rank(rows[i][2]) <= str_rank(rows[j][2])

\* C15: the list page holds the rows of the snapshot, each once, labelled with
\* the registered name or else the id, sorted by (type, label) where the rows
\* without a type come before all rows with a type.
C15_SortedAbsentFirst ==
    page = "List" =>
        /\ RowsOfSnapshot
        /\ \A i, j \in 1..Len(rows) :
              i < j => \/ TypeBeforeAbsentFirst(rows[i], rows[j])
                       \/ rows[i][3] = rows[j][3]
                             /\ str_rank(rows[i][2]) <= str_rank(rows[j][2])

\* three rows have been sorted into another order than the snapshot's: one
\* without a type, and two of one type of which one is labelled by its id
C15_Witness ==
    /\ page = "List"
    /\ Len(rows) = 3
    /\ rows[1][3] = NoType
    /\ rows[2][3] = rows[3][3]
    /\ rows[2][3] # NoType
    /\ rows[3][2] = "x1"
    /\ listed[1][1] = "x1"
    /\ listed[3][2] = NoType

================================================================
